---- MODULE Spec2Model ----
(***************************************************************************)
(* PasteLite backend: the paste record lifecycle (create, liveness check,  *)
(* view counting) of the JSON route GET /api/pastes/:id and the HTML route *)
(* GET /p/:id, over one MongoDB collection of Paste documents.             *)
(*                                                                         *)
(* Node runs each handler on one thread: the code between two awaits is    *)
(* one atomic step, and each awaited MongoDB operation is executed         *)
(* atomically by the database at some later instant.  An action below is   *)
(* one database operation together with the handler code that consumes    *)
(* its result up to the next await (or up to the response).                *)
(***************************************************************************)
EXTENDS Integers, Sequences, FiniteSets, TLC

(***************************************************************************)
(* Bounds of the model.                                                    *)
(***************************************************************************)
MaxPastes == 1       \* documents created in one run
NumReaders == 2      \* GET requests issued in one run
MaxTtl == 1          \* largest ttl_seconds of a create
MaxViewsArg == 2     \* largest max_views of a create

(***************************************************************************)
(* Values.                                                                 *)
(***************************************************************************)
\* JavaScript null / undefined (a missing body field, a null schema field).
Null == -1

\* ttl_seconds * 1000: seconds to milliseconds.
MsPerSecond == 1000

\* Length of a MongoDB ObjectId in hexadecimal characters.
ObjectIdLen == 24

HexChars ==
    {"0", "1", "2", "3", "4", "5", "6", "7", "8", "9",
     "a", "b", "c", "d", "e", "f", "A", "B", "C", "D", "E", "F"}

DigitChars == <<"0", "1", "2", "3", "4", "5", "6", "7", "8", "9">>

\* The instants (ms since epoch) the model's clock visits: an early instant
\* and, for every ttl, the instants around 1 + ttl seconds.
Instants ==
    {1} \cup UNION {{MsPerSecond * t, MsPerSecond * t + 1, MsPerSecond * t + 2} :
                     t \in 1..MaxTtl}

\* Paste contents: strings as sequences of characters.
Contents == {<<"<", "b", ">">>}

\* The n-th ObjectId the driver generates, as a 24-character hex string.
ObjectId(n) == [i \in 1..ObjectIdLen |-> IF i = ObjectIdLen THEN DigitChars[n + 1] ELSE "0"]

PasteIds == {ObjectId(n) : n \in 1..MaxPastes}

\* Ill-formed ids: too short, and 24 characters with a non-hex one.
ShortId == [i \in 1..(ObjectIdLen - 1) |-> "0"]

NonHexId == [i \in 1..ObjectIdLen |-> IF i = 1 THEN "z" ELSE "0"]

\* The ids of GET requests: an id is requested before or after its paste is
\* created.
RequestIds == PasteIds \cup {ShortId, NonHexId}

(***************************************************************************)
(* utils/time.js                                                           *)
(***************************************************************************)
\* Decimal digits of a natural number, as a string.
RECURSIVE ToDigits(_)
ToDigits(n) ==
    IF n < 10 THEN <<DigitChars[n + 1]>>
    ELSE ToDigits(n \div 10) \o <<DigitChars[(n % 10) + 1]>>

DigitValue(c) == CHOOSE d \in 0..9 : DigitChars[d + 1] = c

IsDigit(c) == \E d \in 0..9 : DigitChars[d + 1] = c

\* Value of the longest prefix of digits of s, read left to right from acc.
RECURSIVE DigitPrefix(_, _)
DigitPrefix(s, acc) ==
    IF s = <<>> \/ ~IsDigit(Head(s)) THEN acc
    ELSE DigitPrefix(Tail(s), 10 * acc + DigitValue(Head(s)))

\* parseInt(s, 10): an optional sign, then the longest run of digits; NaN
\* when no digit follows the sign.
parseInt(s) ==
    LET neg == s # <<>> /\ Head(s) = "-"
        signed == s # <<>> /\ Head(s) \in {"-", "+"}
        rest == IF signed THEN Tail(s) ELSE s
    IN  IF rest = <<>> \/ ~IsDigit(Head(rest))
        THEN [isNaN |-> TRUE, value |-> 0]
        ELSE [isNaN |-> FALSE,
              value |-> IF neg THEN 0 - DigitPrefix(rest, 0) ELSE DigitPrefix(rest, 0)]

\* Values of the x-test-now-ms header; <<>> is a request without the header.
NoHeader == <<>>

HeaderValues ==
    {NoHeader, <<"a", "b", "c">>, <<"0">>, <<"-", "5">>} \cup {ToDigits(t) : t \in Instants}

\* Faulty variant of getCurrentTime: the header honoured whatever TEST_MODE is.
getCurrentTimeAnyMode(mode, header, dateNow) ==
    IF header # NoHeader
    THEN LET testTime == parseInt(header)
         IN  IF ~testTime.isNaN /\ testTime.value > 0 THEN testTime.value ELSE dateNow
    ELSE dateNow

\* getCurrentTime(req): the header in TEST_MODE when it parses to a positive
\* number, Date.now() otherwise.
getCurrentTime(mode, header, dateNow) ==
    IF mode /\ header # NoHeader
    THEN LET testTime == parseInt(header)
         IN  IF ~testTime.isNaN /\ testTime.value > 0 THEN testTime.value ELSE dateNow
    ELSE dateNow

(***************************************************************************)
(* utils/validation.js                                                     *)
(***************************************************************************)
\* String.prototype.trim on a string of the model: drops leading and
\* trailing spaces.
RECURSIVE TrimLeft(_)
TrimLeft(s) == IF s # <<>> /\ Head(s) = " " THEN TrimLeft(Tail(s)) ELSE s

RECURSIVE TrimRight(_)
TrimRight(s) ==
    IF s # <<>> /\ s[Len(s)] = " " THEN TrimRight(SubSeq(s, 1, Len(s) - 1)) ELSE s

trim(s) == TrimLeft(TrimRight(s))

\* Request bodies of POST /api/pastes: content is a string, ttl_seconds and
\* max_views are integers or absent (Null).
BodyContents == Contents \cup {<<" ", "<", "b", ">", " ">>, <<" ">>, <<>>}

BodyTtls == {Null} \cup 0..MaxTtl

BodyMaxViews == {Null} \cup 0..MaxViewsArg

\* validateCreatePaste: content non-empty after trim, ttl_seconds and
\* max_views absent or integers >= 1.
validateCreatePaste(content, ttl_seconds, max_views) ==
    /\ trim(content) # <<>>
    /\ ttl_seconds = Null \/ ttl_seconds >= 1
    /\ max_views = Null \/ max_views >= 1

(***************************************************************************)
(* State.                                                                  *)
(***************************************************************************)
VARIABLES
    store,       \* the pastes collection: ObjectId -> Paste document or NoPaste
    testMode,    \* process.env.TEST_MODE === '1'
    wallClock,   \* Date.now()
    reqs,        \* the GET requests: reader -> position and locals of its handler
    call         \* history: the request the last step received, or NoCall

vars == <<store, testMode, wallClock, reqs, call>>

Readers == 1..NumReaders

\* null as a document: findById's answer for an id that is not stored, and a
\* handler's local `paste` before findById has answered.
NoPaste == [found |-> FALSE]

NoResponse == [status |-> 0]

\* No request received by the last step.
NoCall == [kind |-> "none"]

\* A request that has not arrived yet.
IdleRequest ==
    [pc |-> "idle", route |-> "none", id |-> <<>>, currentTime |-> 0,
     paste |-> NoPaste, res |-> NoResponse,
     aborted |-> FALSE,  \* the client has closed the connection
     cause |-> "none",   \* history: the branch that ended the request
     dbCalls |-> 0,      \* history: database operations the request has issued
     incs |-> 0]         \* history: increments the database applied for it

\* Faulty variant of NewPaste: the creation counted as a view.
NewPasteCounted(content, createdAt, expiresAt, maxViews) ==
    [content |-> content, createdAt |-> createdAt, expiresAt |-> expiresAt,
     maxViews |-> maxViews, viewsUsed |-> 1]

\* pasteSchema: a new Paste document.
NewPaste(content, createdAt, expiresAt, maxViews) ==
    [content |-> content, createdAt |-> createdAt, expiresAt |-> expiresAt,
     maxViews |-> maxViews, viewsUsed |-> 0]

\* Paste.findById(id): the document, or null.
findById(id) == IF id \in PasteIds THEN store[id] ELSE NoPaste

\* Faulty variant of findByIdAndUpdateInc: the update also unsets expiresAt.
findByIdAndUpdateIncUnset(id) ==
    IF findById(id) = NoPaste THEN store
    ELSE [store EXCEPT ![id].viewsUsed = @ + 1, ![id].expiresAt = Null]

\* Paste.findByIdAndUpdate(id, {$inc: {viewsUsed: 1}}): the collection after
\* the update; no document matches an id that is not stored.
findByIdAndUpdateInc(id) ==
    IF findById(id) = NoPaste THEN store
    ELSE [store EXCEPT ![id].viewsUsed = @ + 1]

\* Faulty variant of matchesObjectId: /^[0-9a-fA-F]+$/, the length not checked.
matchesObjectIdAnyLength(id) == Len(id) > 0 /\ \A i \in 1..Len(id) : id[i] \in HexChars

\* /^[0-9a-fA-F]{24}$/
matchesObjectId(id) == Len(id) = ObjectIdLen /\ \A i \in 1..Len(id) : id[i] \in HexChars

Stored == {id \in PasteIds : store[id] # NoPaste}

Init ==
    /\ store = [id \in PasteIds |-> NoPaste]
    /\ testMode \in BOOLEAN
    /\ wallClock = 1
    /\ reqs = [r \in Readers |-> IdleRequest]
    /\ call = NoCall

(***************************************************************************)
(* The clock.                                                              *)
(***************************************************************************)
\* Date.now() moves forward between any two steps.
Tick ==
    /\ \E t \in Instants : t > wallClock /\ wallClock' = t
    /\ UNCHANGED <<store, testMode, reqs>>

(***************************************************************************)
(* POST /api/pastes                                                        *)
(***************************************************************************)
\* Faulty variant of CreatePaste: expiresAt computed from a second reading of
\* Date.now() instead of the currentTime that createdAt uses.
CreatePasteTwoClocks(content, ttl_seconds, max_views, header) ==
    /\ Cardinality(Stored) < MaxPastes
    /\ validateCreatePaste(content, ttl_seconds, max_views)
    /\ LET currentTime == getCurrentTime(testMode, header, wallClock)
           expiresAt == IF ttl_seconds # Null /\ ttl_seconds # 0
                        THEN wallClock + (ttl_seconds * MsPerSecond)
                        ELSE Null
           maxViews == IF max_views # Null /\ max_views # 0 THEN max_views ELSE Null
           id == ObjectId(Cardinality(Stored) + 1)
       IN  store' = [store EXCEPT
                        ![id] = NewPaste(trim(content), currentTime, expiresAt, maxViews)]
    /\ UNCHANGED <<testMode, wallClock, reqs>>

\* router.post('/'): validation, then one document saved under a fresh id.
\* A body that fails validation is answered 400 and changes nothing.
CreatePaste(content, ttl_seconds, max_views, header) ==
    /\ Cardinality(Stored) < MaxPastes
    /\ validateCreatePaste(content, ttl_seconds, max_views)
    /\ LET currentTime == getCurrentTime(testMode, header, wallClock)
           expiresAt == IF ttl_seconds # Null /\ ttl_seconds # 0
                        THEN currentTime + (ttl_seconds * MsPerSecond)
                        ELSE Null
           maxViews == IF max_views # Null /\ max_views # 0 THEN max_views ELSE Null
           id == ObjectId(Cardinality(Stored) + 1)
       IN  store' = [store EXCEPT
                        ![id] = NewPaste(trim(content), currentTime, expiresAt, maxViews)]
    /\ UNCHANGED <<testMode, wallClock, reqs>>

(***************************************************************************)
(* Requests.                                                               *)
(***************************************************************************)
\* Requests are numbered in their order of arrival: request r arrives after
\* requests 1..r-1 have arrived.
CanArrive(r) ==
    /\ reqs[r].pc = "idle"
    /\ \A q \in Readers : q < r => reqs[q].pc # "idle"

\* Faulty variant of Respond: the response is written but the handler does not
\* return, so the request stays where it was.
RespondNoReturn(r, res, cause) ==
    reqs' = [reqs EXCEPT ![r].res = res, ![r].cause = cause]

\* res.status(...).json(...) / res.status(...).send(...): the handler returns.
Respond(r, res, cause) ==
    reqs' = [reqs EXCEPT ![r].pc = "done", ![r].res = res, ![r].cause = cause]

\* Date.prototype.toISOString and toLocaleString of an instant.
toISOString(ms) == <<"ISO", ms>>

toLocaleString(ms) == <<"LOCALE", ms>>

(***************************************************************************)
(* GET /api/pastes/:id                                                     *)
(***************************************************************************)
ApiUnavailable == [status |-> 404, body |-> [error |-> "Paste not found or unavailable"]]

ApiServerError == [status |-> 500, body |-> [error |-> "Internal server error"]]

\* Faulty variant of ApiLiveness: expired only at the very instant of expiresAt.
ApiLivenessExactInstant(paste, currentTime) ==
    IF paste = NoPaste THEN "notfound"
    ELSE IF paste.expiresAt # Null /\ paste.expiresAt = currentTime THEN "expired"
    ELSE IF paste.maxViews # Null /\ paste.viewsUsed >= paste.maxViews THEN "exhausted"
    ELSE "live"

\* Faulty variant of ApiLiveness: the view limit compared with > instead of >=.
ApiLivenessOffByOne(paste, currentTime) ==
    IF paste = NoPaste THEN "notfound"
    ELSE IF paste.expiresAt # Null /\ paste.expiresAt <= currentTime THEN "expired"
    ELSE IF paste.maxViews # Null /\ paste.viewsUsed > paste.maxViews THEN "exhausted"
    ELSE "live"

\* Faulty variant of ApiLiveness: the expiry compared with < instead of <=.
ApiLivenessLateExpiry(paste, currentTime) ==
    IF paste = NoPaste THEN "notfound"
    ELSE IF paste.expiresAt # Null /\ paste.expiresAt < currentTime THEN "expired"
    ELSE IF paste.maxViews # Null /\ paste.viewsUsed >= paste.maxViews THEN "exhausted"
    ELSE "live"

\* The checks between the lookup and the increment: which of them, if any,
\* ends the request.
ApiLiveness(paste, currentTime) ==
    IF paste = NoPaste THEN "notfound"
    ELSE IF paste.expiresAt # Null /\ paste.expiresAt <= currentTime THEN "expired"
    ELSE IF paste.maxViews # Null /\ paste.viewsUsed >= paste.maxViews THEN "exhausted"
    ELSE "live"

\* Faulty variant of ApiRemainingViews: the difference not clamped at 0.
ApiRemainingViewsUnclamped(updatedPaste) ==
    IF updatedPaste.maxViews # Null
    THEN updatedPaste.maxViews - updatedPaste.viewsUsed
    ELSE Null

\* remaining_views of the document read back after the increment.
ApiRemainingViews(updatedPaste) ==
    IF updatedPaste.maxViews # Null
    THEN LET remainingViews == updatedPaste.maxViews - updatedPaste.viewsUsed
         IN  IF remainingViews < 0 THEN 0 ELSE remainingViews
    ELSE Null

ApiOk(updatedPaste) ==
    [status |-> 200,
     body |-> [content |-> updatedPaste.content,
               remaining_views |-> ApiRemainingViews(updatedPaste),
               expires_at |-> IF updatedPaste.expiresAt # Null
                              THEN toISOString(updatedPaste.expiresAt)
                              ELSE <<>>]]

\* Faulty variant of ApiStart: an ill-formed id answered 400 instead of 404.
ApiStartBadRequest(r, id, header) ==
    /\ CanArrive(r)
    /\ LET currentTime == getCurrentTime(testMode, header, wallClock)
           arrived == [reqs[r] EXCEPT !.route = "api", !.id = id,
                                      !.currentTime = currentTime]
       IN  IF ~matchesObjectId(id)
           THEN reqs' = [reqs EXCEPT ![r] = [arrived EXCEPT
                            !.pc = "done",
                            !.res = [status |-> 400, body |-> [error |-> "Invalid paste id"]],
                            !.cause = "malformed"]]
           ELSE reqs' = [reqs EXCEPT ![r] = [arrived EXCEPT !.pc = "findById",
                                                            !.dbCalls = 1]]
    /\ UNCHANGED <<store, testMode, wallClock>>

\* The request arrives: the clock is read, the id is matched against the
\* ObjectId format, and findById is issued.
ApiStart(r, id, header) ==
    /\ CanArrive(r)
    /\ LET currentTime == getCurrentTime(testMode, header, wallClock)
           arrived == [reqs[r] EXCEPT !.route = "api", !.id = id,
                                      !.currentTime = currentTime]
       IN  IF ~matchesObjectId(id)
           THEN reqs' = [reqs EXCEPT ![r] = [arrived EXCEPT !.pc = "done",
                                                            !.res = ApiUnavailable,
                                                            !.cause = "malformed"]]
           ELSE reqs' = [reqs EXCEPT ![r] = [arrived EXCEPT !.pc = "findById",
                                                            !.dbCalls = 1]]
    /\ UNCHANGED <<store, testMode, wallClock>>

\* Faulty variant of ApiLookup: the view counted before the checks, so a refused
\* request on a stored paste is counted too.
ApiLookupCountsRefused(r) ==
    /\ reqs[r].pc = "findById"
    /\ reqs[r].route = "api"
    /\ LET paste == findById(reqs[r].id)
           verdict == ApiLiveness(paste, reqs[r].currentTime)
       IN  IF verdict # "live"
           THEN /\ Respond(r, ApiUnavailable, verdict)
                /\ store' = findByIdAndUpdateInc(reqs[r].id)
           ELSE /\ reqs' = [reqs EXCEPT ![r].pc = "findByIdAndUpdate", ![r].paste = paste,
                                        ![r].dbCalls = 2]
                /\ store' = store
    /\ UNCHANGED <<testMode, wallClock>>

\* findById answers; the handler checks existence, expiry and the view limit
\* on the document it got, and issues the increment when all pass.
ApiLookup(r) ==
    /\ reqs[r].pc = "findById"
    /\ reqs[r].route = "api"
    /\ LET paste == findById(reqs[r].id)
           verdict == ApiLiveness(paste, reqs[r].currentTime)
       IN  IF verdict # "live"
           THEN Respond(r, ApiUnavailable, verdict)
           ELSE reqs' = [reqs EXCEPT ![r].pc = "findByIdAndUpdate", ![r].paste = paste,
                                     ![r].dbCalls = 2]
    /\ UNCHANGED <<store, testMode, wallClock>>

\* The database applies {$inc: {viewsUsed: 1}}; the handler issues the
\* second findById.
ApiIncrement(r) ==
    /\ reqs[r].pc = "findByIdAndUpdate"
    /\ reqs[r].route = "api"
    /\ store' = findByIdAndUpdateInc(reqs[r].id)
    /\ reqs' = [reqs EXCEPT ![r].pc = "reread", ![r].dbCalls = 3,
                             ![r].incs = IF store' # store THEN @ + 1 ELSE @]
    /\ UNCHANGED <<testMode, wallClock>>

\* Faulty variant of ApiReread: the response computed from the document of the
\* first lookup plus this request's own increment, without a second read.
ApiRereadOwnIncrement(r) ==
    /\ reqs[r].pc = "reread"
    /\ reqs[r].route = "api"
    /\ Respond(r, ApiOk([reqs[r].paste EXCEPT !.viewsUsed = @ + 1]), "served")
    /\ UNCHANGED <<store, testMode, wallClock>>

\* The second findById answers; the handler computes remaining_views and
\* responds.  A null document makes updatedPaste.maxViews throw, which the
\* catch block answers with 500.
ApiReread(r) ==
    /\ reqs[r].pc = "reread"
    /\ reqs[r].route = "api"
    /\ LET updatedPaste == findById(reqs[r].id)
       IN  IF updatedPaste = NoPaste
           THEN Respond(r, ApiServerError, "error")
           ELSE Respond(r, ApiOk(updatedPaste), "served")
    /\ UNCHANGED <<store, testMode, wallClock>>

(***************************************************************************)
(* GET /p/:id                                                              *)
(***************************************************************************)
\* escapeHtml: & < > " ' replaced by their entities.
EscapeChar(c) ==
    IF c = "&" THEN <<"&", "a", "m", "p", ";">>
    ELSE IF c = "<" THEN <<"&", "l", "t", ";">>
    ELSE IF c = ">" THEN <<"&", "g", "t", ";">>
    ELSE IF c = "\"" THEN <<"&", "q", "u", "o", "t", ";">>
    ELSE IF c = "'" THEN <<"&", "#", "0", "3", "9", ";">>
    ELSE <<c>>

RECURSIVE escapeHtml(_)
escapeHtml(text) ==
    IF text = <<>> THEN <<>> ELSE EscapeChar(Head(text)) \o escapeHtml(Tail(text))

\* The pages, by the parts that vary and the text that identifies them.
render404Page ==
    [title |-> "404 - Paste Not Found", h1 |-> "404", p |-> "Paste not found or unavailable"]

render500Page ==
    [title |-> "500 - Server Error", h1 |-> "500", p |-> "Internal server error"]

renderPastePage(paste, remainingViews) ==
    [title |-> "PasteLite - View Paste",
     escapedContent |-> escapeHtml(paste.content),
     expiresText |-> IF paste.expiresAt # Null
                     THEN toLocaleString(paste.expiresAt)
                     ELSE <<"Never">>,
     viewsText |-> IF remainingViews # Null
                   THEN <<"view(s) remaining", remainingViews>>
                   ELSE <<"Unlimited views">>]

ViewUnavailable == [status |-> 404, body |-> render404Page]

ViewServerError == [status |-> 500, body |-> render500Page]

\* Faulty variant of ViewLiveness: the view limit compared without the null test
\* (viewsUsed >= null holds in JavaScript).
ViewLivenessNullLimit(paste, currentTime) ==
    IF paste = NoPaste THEN "notfound"
    ELSE IF paste.expiresAt # Null /\ paste.expiresAt <= currentTime THEN "expired"
    ELSE IF paste.maxViews = Null \/ paste.viewsUsed >= paste.maxViews THEN "exhausted"
    ELSE "live"

\* Faulty variant of ViewLiveness: the view limit compared with > instead of >=.
ViewLivenessOffByOne(paste, currentTime) ==
    IF paste = NoPaste THEN "notfound"
    ELSE IF paste.expiresAt # Null /\ paste.expiresAt <= currentTime THEN "expired"
    ELSE IF paste.maxViews # Null /\ paste.viewsUsed > paste.maxViews THEN "exhausted"
    ELSE "live"

ViewLiveness(paste, currentTime) ==
    IF paste = NoPaste THEN "notfound"
    ELSE IF paste.expiresAt # Null /\ paste.expiresAt <= currentTime THEN "expired"
    ELSE IF paste.maxViews # Null /\ paste.viewsUsed >= paste.maxViews THEN "exhausted"
    ELSE "live"

ViewRemainingViews(updatedPaste) ==
    IF updatedPaste.maxViews # Null
    THEN LET remainingViews == updatedPaste.maxViews - updatedPaste.viewsUsed
         IN  IF remainingViews < 0 THEN 0 ELSE remainingViews
    ELSE Null

ViewOk(updatedPaste) ==
    [status |-> 200,
     body |-> renderPastePage(updatedPaste, ViewRemainingViews(updatedPaste))]

ViewStart(r, id, header) ==
    /\ CanArrive(r)
    /\ LET currentTime == getCurrentTime(testMode, header, wallClock)
           arrived == [reqs[r] EXCEPT !.route = "view", !.id = id,
                                      !.currentTime = currentTime]
       IN  IF ~matchesObjectId(id)
           THEN reqs' = [reqs EXCEPT ![r] = [arrived EXCEPT !.pc = "done",
                                                            !.res = ViewUnavailable,
                                                            !.cause = "malformed"]]
           ELSE reqs' = [reqs EXCEPT ![r] = [arrived EXCEPT !.pc = "findById",
                                                            !.dbCalls = 1]]
    /\ UNCHANGED <<store, testMode, wallClock>>

ViewLookup(r) ==
    /\ reqs[r].pc = "findById"
    /\ reqs[r].route = "view"
    /\ LET paste == findById(reqs[r].id)
           verdict == ViewLiveness(paste, reqs[r].currentTime)
       IN  IF verdict # "live"
           THEN Respond(r, ViewUnavailable, verdict)
           ELSE reqs' = [reqs EXCEPT ![r].pc = "findByIdAndUpdate", ![r].paste = paste,
                                     ![r].dbCalls = 2]
    /\ UNCHANGED <<store, testMode, wallClock>>

ViewIncrement(r) ==
    /\ reqs[r].pc = "findByIdAndUpdate"
    /\ reqs[r].route = "view"
    /\ store' = findByIdAndUpdateInc(reqs[r].id)
    /\ reqs' = [reqs EXCEPT ![r].pc = "reread", ![r].dbCalls = 3,
                             ![r].incs = IF store' # store THEN @ + 1 ELSE @]
    /\ UNCHANGED <<testMode, wallClock>>

ViewReread(r) ==
    /\ reqs[r].pc = "reread"
    /\ reqs[r].route = "view"
    /\ LET updatedPaste == findById(reqs[r].id)
       IN  IF updatedPaste = NoPaste
           THEN Respond(r, ViewServerError, "error")
           ELSE Respond(r, ViewOk(updatedPaste), "served")
    /\ UNCHANGED <<store, testMode, wallClock>>

(***************************************************************************)
(* Backend failures and closed connections.                                *)
(***************************************************************************)
\* res.status(201).json({id, url}) of a create; BASE_URL stands for the
\* configured base url.
CreatedResponse(id) ==
    [status |-> 201, body |-> [id |-> id, url |-> <<"BASE_URL", "/p/", id>>]]

\* paste.save() rejects: the catch block of router.post answers 500 and no
\* document is stored.
CreateFails(content, ttl_seconds, max_views) ==
    /\ Cardinality(Stored) < MaxPastes
    /\ validateCreatePaste(content, ttl_seconds, max_views)
    /\ call' = [kind |-> "post", cause |-> "error",
                res |-> [status |-> 500, body |-> [error |-> "Internal server error"]]]
    /\ UNCHANGED <<store, testMode, wallClock, reqs>>

\* Faulty variant of ApiLookupFails: a rejected lookup treated as no document.
ApiLookupFailsAsNotFound(r) ==
    /\ reqs[r].pc = "findById"
    /\ reqs[r].route = "api"
    /\ Respond(r, ApiUnavailable, "error")
    /\ UNCHANGED <<store, testMode, wallClock>>

\* The first findById rejects: the catch block answers 500.
ApiLookupFails(r) ==
    /\ reqs[r].pc = "findById"
    /\ reqs[r].route = "api"
    /\ Respond(r, ApiServerError, "error")
    /\ UNCHANGED <<store, testMode, wallClock>>

\* findByIdAndUpdate rejects, the update applied by the database (the reply
\* was lost) or not: the catch block answers 500.
ApiIncrementFails(r, applied) ==
    /\ reqs[r].pc = "findByIdAndUpdate"
    /\ reqs[r].route = "api"
    /\ store' = IF applied THEN findByIdAndUpdateInc(reqs[r].id) ELSE store
    /\ reqs' = [reqs EXCEPT ![r].pc = "done", ![r].res = ApiServerError,
                             ![r].cause = "error", ![r].dbCalls = 3,
                             ![r].incs = IF store' # store THEN @ + 1 ELSE @]
    /\ UNCHANGED <<testMode, wallClock>>

\* Faulty variant of ApiRereadFails: the catch block takes the increment back.
ApiRereadFailsRollback(r) ==
    /\ reqs[r].pc = "reread"
    /\ reqs[r].route = "api"
    /\ Respond(r, ApiServerError, "error")
    /\ store' = [store EXCEPT ![reqs[r].id].viewsUsed = @ - 1]
    /\ UNCHANGED <<testMode, wallClock>>

\* The second findById rejects: the catch block answers 500.
ApiRereadFails(r) ==
    /\ reqs[r].pc = "reread"
    /\ reqs[r].route = "api"
    /\ Respond(r, ApiServerError, "error")
    /\ UNCHANGED <<store, testMode, wallClock>>

ViewLookupFails(r) ==
    /\ reqs[r].pc = "findById"
    /\ reqs[r].route = "view"
    /\ Respond(r, ViewServerError, "error")
    /\ UNCHANGED <<store, testMode, wallClock>>

ViewIncrementFails(r, applied) ==
    /\ reqs[r].pc = "findByIdAndUpdate"
    /\ reqs[r].route = "view"
    /\ store' = IF applied THEN findByIdAndUpdateInc(reqs[r].id) ELSE store
    /\ reqs' = [reqs EXCEPT ![r].pc = "done", ![r].res = ViewServerError,
                             ![r].cause = "error", ![r].dbCalls = 3,
                             ![r].incs = IF store' # store THEN @ + 1 ELSE @]
    /\ UNCHANGED <<testMode, wallClock>>

ViewRereadFails(r) ==
    /\ reqs[r].pc = "reread"
    /\ reqs[r].route = "view"
    /\ Respond(r, ViewServerError, "error")
    /\ UNCHANGED <<store, testMode, wallClock>>

\* The client closes the connection after the increment and before the
\* response: neither handler listens for it, so the handler runs on and its
\* response reaches nobody.
ClientAborts(r) ==
    /\ reqs[r].pc = "reread"
    /\ ~reqs[r].aborted
    /\ reqs' = [reqs EXCEPT ![r].aborted = TRUE]
    /\ UNCHANGED <<store, testMode, wallClock>>

(***************************************************************************)
(* POST /api/pastes with its awaited save.                                 *)
(***************************************************************************)
\* A create is waiting for paste.save().
PostPending == call.kind = "save"

\* router.post('/') up to its await: validation, the clock read, the document
\* built, paste.save() issued.  One create is pending at a time.
PostStart(content, ttl_seconds, max_views, header) ==
    /\ Cardinality(Stored) < MaxPastes
    /\ ~PostPending
    /\ validateCreatePaste(content, ttl_seconds, max_views)
    /\ LET currentTime == getCurrentTime(testMode, header, wallClock)
           expiresAt == IF ttl_seconds # Null /\ ttl_seconds # 0
                        THEN currentTime + (ttl_seconds * MsPerSecond)
                        ELSE Null
           maxViews == IF max_views # Null /\ max_views # 0 THEN max_views ELSE Null
       IN  call' = [kind |-> "save",
                    paste |-> NewPaste(trim(content), currentTime, expiresAt, maxViews)]
    /\ UNCHANGED <<store, testMode, wallClock, reqs>>

\* paste.save() resolves: the document is stored and the handler answers 201.
PostSave ==
    /\ PostPending
    /\ LET id == ObjectId(Cardinality(Stored) + 1)
       IN  /\ store' = [store EXCEPT ![id] = call.paste]
           /\ call' = [kind |-> "post", cause |-> "created", res |-> CreatedResponse(id)]
    /\ UNCHANGED <<testMode, wallClock, reqs>>

\* paste.save() rejects: the catch block answers 500.
PostSaveFails ==
    /\ PostPending
    /\ call' = [kind |-> "post", cause |-> "error",
                res |-> [status |-> 500, body |-> [error |-> "Internal server error"]]]
    /\ UNCHANGED <<store, testMode, wallClock, reqs>>

(***************************************************************************)
(* Specifications.                                                         *)
(***************************************************************************)
Create ==
    /\ Cardinality(Stored) < MaxPastes
    /\ \E content \in BodyContents, ttl_seconds \in BodyTtls, max_views \in BodyMaxViews,
          header \in HeaderValues :
           CreatePaste(content, ttl_seconds, max_views, header)

Arrive ==
    \E r \in {q \in Readers : CanArrive(q)}, id \in RequestIds, header \in HeaderValues :
        ApiStart(r, id, header) \/ ViewStart(r, id, header)

\* Any number of requests in flight at once; requests are not recorded.
Next ==
    \/ Tick /\ UNCHANGED call
    \/ Create /\ UNCHANGED call
    \/ Arrive /\ UNCHANGED call
    \/ \E r \in Readers : ApiLookup(r) /\ UNCHANGED call
    \/ \E r \in Readers : ApiIncrement(r) /\ UNCHANGED call
    \/ \E r \in Readers : ApiReread(r) /\ UNCHANGED call
    \/ \E r \in Readers : ViewLookup(r) /\ UNCHANGED call
    \/ \E r \in Readers : ViewIncrement(r) /\ UNCHANGED call
    \/ \E r \in Readers : ViewReread(r) /\ UNCHANGED call

Spec == Init /\ [][Next]_vars

InFlight == {r \in Readers : reqs[r].pc \notin {"idle", "done"}}

\* One request at a time: a request arrives only when none is in flight.
SeqNext ==
    \/ Tick /\ UNCHANGED call
    \/ Create /\ UNCHANGED call
    \/ InFlight = {} /\ Arrive /\ UNCHANGED call
    \/ \E r \in Readers : ApiLookup(r) /\ UNCHANGED call
    \/ \E r \in Readers : ApiIncrement(r) /\ UNCHANGED call
    \/ \E r \in Readers : ApiReread(r) /\ UNCHANGED call
    \/ \E r \in Readers : ViewLookup(r) /\ UNCHANGED call
    \/ \E r \in Readers : ViewIncrement(r) /\ UNCHANGED call
    \/ \E r \in Readers : ViewReread(r) /\ UNCHANGED call

SeqSpec == Init /\ [][SeqNext]_vars

\* A create, recorded with its body, header, clock and response.
LoggedCreate ==
    /\ Cardinality(Stored) < MaxPastes
    /\ \E content \in BodyContents, ttl_seconds \in BodyTtls, max_views \in BodyMaxViews,
          header \in HeaderValues :
           /\ CreatePaste(content, ttl_seconds, max_views, header)
           /\ call' = [kind |-> "post", content |-> content,
                       ttl_seconds |-> ttl_seconds, max_views |-> max_views,
                       header |-> header, dateNow |-> wallClock,
                       res |-> CreatedResponse(ObjectId(Cardinality(Stored) + 1))]

\* The arrival of a GET request, recorded with its header and clock.
LoggedArrive ==
    \E r \in {q \in Readers : CanArrive(q)}, id \in RequestIds, header \in HeaderValues :
        /\ ApiStart(r, id, header) \/ ViewStart(r, id, header)
        /\ call' = [kind |-> "get", r |-> r, header |-> header, dateNow |-> wallClock]

\* SeqSpec with the request a step receives recorded in call for that step.
LogNext ==
    \/ Tick /\ call' = NoCall
    \/ LoggedCreate
    \/ InFlight = {} /\ LoggedArrive
    \/ \E r \in Readers : ApiLookup(r) /\ call' = NoCall
    \/ \E r \in Readers : ApiIncrement(r) /\ call' = NoCall
    \/ \E r \in Readers : ApiReread(r) /\ call' = NoCall
    \/ \E r \in Readers : ViewLookup(r) /\ call' = NoCall
    \/ \E r \in Readers : ViewIncrement(r) /\ call' = NoCall
    \/ \E r \in Readers : ViewReread(r) /\ call' = NoCall

LogSpec == Init /\ [][LogNext]_vars

\* Spec with database operations that may reject and clients that may close
\* the connection.
FaultNext ==
    \/ Tick /\ call' = NoCall
    \/ Create /\ call' = NoCall
    \/ Arrive /\ call' = NoCall
    \/ \E r \in Readers : ApiLookup(r) /\ call' = NoCall
    \/ \E r \in Readers : ApiIncrement(r) /\ call' = NoCall
    \/ \E r \in Readers : ApiReread(r) /\ call' = NoCall
    \/ \E r \in Readers : ViewLookup(r) /\ call' = NoCall
    \/ \E r \in Readers : ViewIncrement(r) /\ call' = NoCall
    \/ \E r \in Readers : ViewReread(r) /\ call' = NoCall
    \/ \E content \in BodyContents, ttl_seconds \in BodyTtls, max_views \in BodyMaxViews :
           CreateFails(content, ttl_seconds, max_views)
    \/ \E r \in Readers : ApiLookupFails(r) /\ call' = NoCall
    \/ \E r \in Readers, applied \in BOOLEAN : ApiIncrementFails(r, applied) /\ call' = NoCall
    \/ \E r \in Readers : ApiRereadFails(r) /\ call' = NoCall
    \/ \E r \in Readers : ViewLookupFails(r) /\ call' = NoCall
    \/ \E r \in Readers, applied \in BOOLEAN : ViewIncrementFails(r, applied) /\ call' = NoCall
    \/ \E r \in Readers : ViewRereadFails(r) /\ call' = NoCall
    \/ \E r \in Readers : ClientAborts(r) /\ call' = NoCall

\* The production configuration: TEST_MODE is not set.
FaultInit == Init /\ ~testMode

FaultSpec == FaultInit /\ [][FaultNext]_vars

\* The pending database call of request r resolves and its handler runs on.
ReturnsTo(r) ==
    \/ ApiLookup(r) \/ ApiIncrement(r) \/ ApiReread(r)
    \/ ViewLookup(r) \/ ViewIncrement(r) \/ ViewReread(r)

\* The pending database call of request r rejects.
FailsFor(r) ==
    \/ ApiLookupFails(r) \/ ApiRereadFails(r)
    \/ ViewLookupFails(r) \/ ViewRereadFails(r)
    \/ \E applied \in BOOLEAN : ApiIncrementFails(r, applied) \/ ViewIncrementFails(r, applied)

\* Creates and reads with every awaited database call a step of its own,
\* resolving or rejecting; call holds the pending create or its response.
LiveNext ==
    \/ Tick /\ UNCHANGED call
    \/ \E content \in BodyContents, ttl_seconds \in BodyTtls, max_views \in BodyMaxViews,
          header \in HeaderValues : PostStart(content, ttl_seconds, max_views, header)
    \/ PostSave
    \/ PostSaveFails
    \/ Arrive /\ UNCHANGED call
    \/ \E r \in Readers : ApiLookup(r) /\ UNCHANGED call
    \/ \E r \in Readers : ApiIncrement(r) /\ UNCHANGED call
    \/ \E r \in Readers : ApiReread(r) /\ UNCHANGED call
    \/ \E r \in Readers : ViewLookup(r) /\ UNCHANGED call
    \/ \E r \in Readers : ViewIncrement(r) /\ UNCHANGED call
    \/ \E r \in Readers : ViewReread(r) /\ UNCHANGED call
    \/ \E r \in Readers : ApiLookupFails(r) /\ UNCHANGED call
    \/ \E r \in Readers, applied \in BOOLEAN : ApiIncrementFails(r, applied) /\ UNCHANGED call
    \/ \E r \in Readers : ApiRereadFails(r) /\ UNCHANGED call
    \/ \E r \in Readers : ViewLookupFails(r) /\ UNCHANGED call
    \/ \E r \in Readers, applied \in BOOLEAN : ViewIncrementFails(r, applied) /\ UNCHANGED call
    \/ \E r \in Readers : ViewRereadFails(r) /\ UNCHANGED call

\* Every database call eventually resolves or rejects: the pending save of a
\* create, and the pending call of each read request.
LiveFairness ==
    /\ WF_vars(PostSave \/ PostSaveFails)
    /\ \A r \in Readers : WF_vars((ReturnsTo(r) \/ FailsFor(r)) /\ UNCHANGED call)

LiveSpec == FaultInit /\ [][LiveNext]_vars /\ LiveFairness

(***************************************************************************)
(* Properties.                                                             *)
(***************************************************************************)
Done(r) == reqs[r].pc = "done"

Served(r) == Done(r) /\ reqs[r].res.status = 200

Unavailable(r) == Done(r) /\ reqs[r].res.status = 404

\* The requests on a paste whose lookup has answered with its document.
ReadsOf(id) == {r \in Readers : reqs[r].id = id /\ reqs[r].pc \notin {"idle", "findById"}
                                /\ reqs[r].cause # "notfound"}

ServedOf(id) == {r \in ReadsOf(id) : Served(r)}

\* remaining_views as the response carries it: the JSON field, or the number
\* in the page's views text; Null for null / "Unlimited views".
RemainingViewsOf(r) ==
    IF reqs[r].route = "api" THEN reqs[r].res.body.remaining_views
    ELSE IF Len(reqs[r].res.body.viewsText) = 2 THEN reqs[r].res.body.viewsText[2]
    ELSE Null

\* The request passed the checks of the lookup.
PassedLookup(r) == reqs[r].dbCalls >= 2

\* C1: a paste with max_views = N and no expiry is served at most N times,
\* however the requests on it interleave; every other request that finds it
\* is answered 404, and once N or more requests on it have finished exactly N
\* of them were served.
C1_ExactlyNServed ==
    \A id \in Stored :
        (store[id].maxViews # Null /\ store[id].expiresAt = Null) =>
            /\ Cardinality(ServedOf(id)) <= store[id].maxViews
            /\ \A r \in ReadsOf(id) : Done(r) => (Served(r) \/ Unavailable(r))
            /\ Cardinality({r \in ReadsOf(id) : Done(r)}) >= store[id].maxViews
                   => Cardinality(ServedOf(id)) = store[id].maxViews

\* C2: in every reachable state every paste with maxViews set has
\* viewsUsed <= maxViews.
C2_ViewsUsedWithinMax ==
    \A id \in Stored :
        store[id].maxViews # Null => store[id].viewsUsed <= store[id].maxViews

\* C3: when two requests both passed the liveness check on a paste that had
\* exactly one view left, at most one of them is served, the served one with
\* remaining_views = 0, and the other one, once finished, is answered 404.
C3_OneOfTwoServed ==
    \A r1, r2 \in Readers :
        (/\ r1 # r2
         /\ reqs[r1].id = reqs[r2].id
         /\ PassedLookup(r1) /\ PassedLookup(r2)
         /\ reqs[r1].paste.maxViews # Null
         /\ reqs[r1].paste.viewsUsed = reqs[r1].paste.maxViews - 1
         /\ reqs[r2].paste = reqs[r1].paste) =>
            /\ ~(Served(r1) /\ Served(r2))
            /\ Served(r1) => RemainingViewsOf(r1) = 0
            /\ (Served(r1) /\ Done(r2)) => Unavailable(r2)

\* The reads of a paste evaluated before its expiry, among requests 1..r.
UnexpiredReadsUpTo(id, r) ==
    {q \in ReadsOf(id) : q <= r /\ (store[id].expiresAt = Null
                                     \/ reqs[q].currentTime < store[id].expiresAt)}

\* C4: with one request at a time, the k-th unexpired read of a paste with
\* max_views = N is served with remaining_views = N - k when k <= N, and is
\* answered 404 when k > N.
C4_SequentialBudget ==
    \A id \in Stored : \A r \in Readers :
        (/\ store[id].maxViews # Null
         /\ Done(r)
         /\ r \in UnexpiredReadsUpTo(id, r)) =>
            LET k == Cardinality(UnexpiredReadsUpTo(id, r))
                N == store[id].maxViews
            IN  IF k <= N
                THEN Served(r) /\ RemainingViewsOf(r) = N - k
                ELSE Unavailable(r)

\* C4 witness: a paste with max_views = 1 read twice in sequence: served with
\* remaining_views = 0, then refused as exhausted.
C4_Witness ==
    \E id \in Stored :
        /\ store[id].maxViews = 1
        /\ \E r1, r2 \in ReadsOf(id) :
            /\ r1 < r2
            /\ Served(r1) /\ RemainingViewsOf(r1) = 0
            /\ Unavailable(r2) /\ reqs[r2].cause = "exhausted"

\* C5: a paste created with ttl_seconds = T expires T * 1000 ms after its
\* createdAt; a read that finds it at now >= expiresAt (now = expiresAt
\* included) is answered 404, and a read that finds it at now < expiresAt
\* (now = expiresAt - 1 included) is served unless the view limit refuses it.
C5_ExpiryBoundary ==
    \A id \in Stored :
        store[id].expiresAt # Null =>
            /\ \E T \in 1..MaxTtl :
                   store[id].expiresAt = store[id].createdAt + 1000 * T
            /\ \A r \in ReadsOf(id) :
                   Done(r) =>
                       IF reqs[r].currentTime >= store[id].expiresAt
                       THEN Unavailable(r)
                       ELSE \/ Served(r)
                            \/ /\ Unavailable(r)
                               /\ store[id].maxViews # Null
                               /\ store[id].viewsUsed >= store[id].maxViews

\* C5 witness: one paste read 1 ms before its expiry and served, and read at
\* the instant of its expiry and refused.
C5_Witness ==
    \E id \in Stored : \E r1, r2 \in ReadsOf(id) :
        /\ store[id].expiresAt # Null
        /\ reqs[r1].currentTime = store[id].expiresAt - 1 /\ Served(r1)
        /\ reqs[r2].currentTime = store[id].expiresAt /\ Unavailable(r2)

\* C6: a request answered 404 has applied no increment, and the step that
\* answers 404 leaves the collection as it was.
C6_UnavailableLeavesStore ==
    [][\A r \in Readers :
           (reqs'[r].pc = "done" /\ reqs'[r].res.status = 404) =>
               /\ reqs'[r].incs = 0
               /\ reqs[r].pc # "done" => store' = store]_vars

\* C6 witness: a request refused at the view limit of a paste that an earlier
\* request has viewed, the count still at the limit.
C6_Witness ==
    \E r1, r2 \in Readers : \E id \in Stored :
        /\ Unavailable(r1) /\ reqs[r1].cause = "exhausted" /\ reqs[r1].id = id
        /\ Served(r2) /\ reqs[r2].id = id
        /\ store[id].viewsUsed = store[id].maxViews

\* C7: viewsUsed is 0 when a paste is created; afterwards every step leaves
\* it unchanged or adds exactly 1, the step that adds 1 is the increment of
\* one request, and no request increments more than once.
C7_ViewsUsedMonotone ==
    [][/\ \A id \in PasteIds :
              IF store[id] = NoPaste
              THEN store'[id] # NoPaste => store'[id].viewsUsed = 0
              ELSE /\ store'[id] # NoPaste
                   /\ store'[id].viewsUsed \in {store[id].viewsUsed, store[id].viewsUsed + 1}
                   /\ store'[id].viewsUsed # store[id].viewsUsed =>
                          \E r \in Readers :
                              /\ reqs[r].id = id
                              /\ reqs[r].incs = 0 /\ reqs'[r].incs = 1
                              /\ \A q \in Readers \ {r} : reqs'[q] = reqs[q]
       /\ \A r \in Readers : reqs'[r].incs <= 1]_vars

\* C7 witness: a paste that two requests have incremented.
C7_Witness ==
    \E id \in Stored :
        /\ store[id].viewsUsed = 2
        /\ Cardinality({r \in Readers : reqs[r].id = id /\ reqs[r].incs = 1}) = 2

\* C8: every request that finds a paste created without ttl_seconds and
\* without max_views is served, with remaining_views = null.
C8_UnlimitedAlwaysServed ==
    \A id \in Stored :
        (store[id].expiresAt = Null /\ store[id].maxViews = Null) =>
            \A r \in ReadsOf(id) :
                /\ PassedLookup(r)
                /\ Done(r) => (Served(r) /\ RemainingViewsOf(r) = Null)

\* C8 witness: an unlimited paste served to every request, one per route.
C8_Witness ==
    \E id \in Stored :
        /\ store[id].expiresAt = Null /\ store[id].maxViews = Null
        /\ \A r \in Readers : Served(r) /\ reqs[r].id = id
        /\ \E r1, r2 \in Readers : reqs[r1].route = "api" /\ reqs[r2].route = "view"
        /\ store[id].viewsUsed = NumReaders

\* An id of exactly 24 hexadecimal characters.
WellFormedId(id) ==
    /\ Len(id) = 24
    /\ \A i \in 1..Len(id) :
           id[i] \in {"0", "1", "2", "3", "4", "5", "6", "7", "8", "9",
                      "a", "b", "c", "d", "e", "f", "A", "B", "C", "D", "E", "F"}

\* C9: a request whose id is not 24 hexadecimal characters is answered 404 in
\* the step it arrives in, has issued no database operation, and that step
\* leaves the collection unchanged.
C9_MalformedIdNoBackend ==
    [][\A r \in Readers :
           (reqs[r].pc = "idle" /\ reqs'[r].pc # "idle" /\ ~WellFormedId(reqs'[r].id)) =>
               /\ reqs'[r].pc = "done"
               /\ reqs'[r].res.status = 404
               /\ reqs'[r].dbCalls = 0 /\ reqs'[r].incs = 0
               /\ store' = store]_vars

\* C9 witness: a too-short id and a non-hex id, both answered 404, while a
\* paste is stored.
C9_Witness ==
    \E r1, r2 \in Readers :
        /\ Unavailable(r1) /\ Len(reqs[r1].id) # 24
        /\ Unavailable(r2) /\ Len(reqs[r2].id) = 24 /\ ~WellFormedId(reqs[r2].id)
        /\ Stored # {}

\* C10: on one route every 404 response is the same response whatever ended
\* the request (malformed id, no document, expired, view limit reached); on
\* the JSON route it is the documented body.
C10_UniformUnavailable ==
    /\ \A r1, r2 \in Readers :
           (Unavailable(r1) /\ Unavailable(r2) /\ reqs[r1].route = reqs[r2].route) =>
               reqs[r1].res = reqs[r2].res
    /\ \A r \in Readers :
           (Done(r) /\ reqs[r].route = "api"
            /\ reqs[r].cause \in {"malformed", "notfound", "expired", "exhausted"}) =>
               reqs[r].res = [status |-> 404,
                              body |-> [error |-> "Paste not found or unavailable"]]
    /\ \A r \in Readers :
           (Done(r) /\ reqs[r].route = "view"
            /\ reqs[r].cause \in {"malformed", "notfound", "expired", "exhausted"}) =>
               reqs[r].res.status = 404

\* C10 witness: two 404 responses of the JSON route, one for an expired paste
\* and one for an exhausted one.
C10_Witness ==
    \E r1, r2 \in Readers :
        /\ reqs[r1].route = "api" /\ reqs[r2].route = "api"
        /\ Unavailable(r1) /\ reqs[r1].cause = "expired"
        /\ Unavailable(r2) /\ reqs[r2].cause \in {"exhausted", "notfound", "malformed"}

\* C11: a request whose database operation rejected is answered 500 with the
\* server-error body of its route, never 404 and never 200; a create whose
\* save rejected is answered 500.
C11_BackendFailureIs500 ==
    /\ \A r \in Readers :
           (Done(r) /\ reqs[r].cause = "error") =>
               /\ reqs[r].res.status = 500
               /\ reqs[r].route = "api" =>
                      reqs[r].res.body = [error |-> "Internal server error"]
               /\ reqs[r].route = "view" => reqs[r].res.body.h1 = "500"
    /\ \A r \in Readers :
           (Done(r) /\ reqs[r].res.status \in {200, 404}) => reqs[r].cause # "error"
    /\ (call.kind = "post" /\ call.cause = "error") =>
           (call.res.status = 500 /\ call.res.body = [error |-> "Internal server error"])

\* C11 witness: one request failed at its lookup and one failed at its
\* re-read, after its increment was applied.
C11_Witness ==
    \E r1, r2 \in Readers :
        /\ Done(r1) /\ reqs[r1].cause = "error" /\ reqs[r1].dbCalls = 1
        /\ Done(r2) /\ reqs[r2].cause = "error" /\ reqs[r2].dbCalls = 3
        /\ reqs[r2].incs = 1

\* A header that is a decimal numeral of a positive integer.
PositiveNumeral(h) ==
    /\ h # <<>>
    /\ \A i \in 1..Len(h) : h[i] \in {"0", "1", "2", "3", "4", "5", "6", "7", "8", "9"}
    /\ \E i \in 1..Len(h) : h[i] # "0"

NumeralDigit(c) ==
    CASE c = "0" -> 0 [] c = "1" -> 1 [] c = "2" -> 2 [] c = "3" -> 3 [] c = "4" -> 4
      [] c = "5" -> 5 [] c = "6" -> 6 [] c = "7" -> 7 [] c = "8" -> 8 [] c = "9" -> 9

RECURSIVE NumeralValue(_)
NumeralValue(h) ==
    IF h = <<>> THEN 0
    ELSE 10 * NumeralValue(SubSeq(h, 1, Len(h) - 1)) + NumeralDigit(h[Len(h)])

\* The instant the clock owes a request with header h received at dateNow.
ExpectedNow(h, dateNow) ==
    IF testMode /\ PositiveNumeral(h) THEN NumeralValue(h) ELSE dateNow

\* C12: the clock of a request is the x-test-now-ms value exactly when
\* TEST_MODE is on and the header is present and a positive integer; in every
\* other case (mode off, header absent, non-numeric, zero, negative) it is
\* Date.now().  Checked on the currentTime of each arriving GET and on the
\* createdAt of each created paste.
C12_ClockOverride ==
    /\ call.kind = "get" =>
           reqs[call.r].currentTime = ExpectedNow(call.header, call.dateNow)
    /\ (call.kind = "post" /\ call.res.status = 201) =>
           store[call.res.body.id].createdAt = ExpectedNow(call.header, call.dateNow)

\* C12 witness: in TEST_MODE a GET arrives with a header that differs from
\* Date.now() and runs at the header's instant.
C12_Witness ==
    /\ call.kind = "get"
    /\ testMode
    /\ PositiveNumeral(call.header)
    /\ NumeralValue(call.header) # call.dateNow
    /\ reqs[call.r].currentTime = NumeralValue(call.header)

\* C13: with Date.now() as the clock, no response that carries the content
\* of a paste with expiresAt set is produced at an instant >= expiresAt.  (An
\* increment committed at such an instant is followed by a response at a
\* later or equal instant, so the response step covers both cases.)
C13_NeverServedPastExpiry ==
    [][\A r \in Readers :
           (~testMode /\ reqs[r].pc = "reread" /\ Served(r)') =>
               \/ store[reqs[r].id].expiresAt = Null
               \/ wallClock < store[reqs[r].id].expiresAt]_vars

\* Request q has been refused because the paste was expired or exhausted.
RefusedAsSpent(q) == Unavailable(q) /\ reqs[q].cause \in {"expired", "exhausted"}

CreationFields(paste) ==
    <<paste.content, paste.createdAt, paste.expiresAt, paste.maxViews>>

C17_RemainingViewsRange ==
    \A r \in Readers :
        Served(r) =>
            LET maxViews == store[reqs[r].id].maxViews
            IN  /\ (RemainingViewsOf(r) = Null) <=> (maxViews = Null)
                /\ maxViews # Null => RemainingViewsOf(r) \in 0..(maxViews - 1)

\* C17 witness: a request served with remaining_views = 0 by the clamp, the
\* paste read back with viewsUsed above maxViews.
C17_Witness ==
    \E r \in Readers :
        /\ Served(r)
        /\ store[reqs[r].id].maxViews # Null
        /\ store[reqs[r].id].viewsUsed > store[reqs[r].id].maxViews
        /\ RemainingViewsOf(r) = 0

\* C18 (as stated): the 200 responses for a paste with max_views = N whose
\* viewsUsed has not passed N carry pairwise distinct remaining_views.
C18_DistinctRemainingViews ==
    \A id \in Stored :
        (store[id].maxViews # Null /\ store[id].viewsUsed <= store[id].maxViews) =>
            \A r1, r2 \in ServedOf(id) :
                r1 # r2 => RemainingViewsOf(r1) # RemainingViewsOf(r2)

\* C18 (amended): the remaining_views of a 200 response is maxViews minus the
\* viewsUsed the paste has when the request reads it back, clamped at 0; that
\* value counts the request's own increment and every increment other
\* requests committed before the re-read, so it is at most maxViews minus
\* (viewsUsed seen by the lookup + 1) and two responses may carry the same
\* value.
C18_RemainingViewsAtReread ==
    [][\A r \in Readers :
           (reqs[r].pc = "reread" /\ Served(r)' /\ store[reqs[r].id].maxViews # Null) =>
               LET doc == store[reqs[r].id]
                   diff == doc.maxViews - doc.viewsUsed
               IN  /\ RemainingViewsOf(r)' = IF diff < 0 THEN 0 ELSE diff
                   /\ doc.viewsUsed >= reqs[r].paste.viewsUsed + 1]_vars

\* C18 witness: two requests on a paste with max_views = 2, both served with
\* remaining_views = 0, viewsUsed = 2.
C18_Witness ==
    \E id \in Stored :
        /\ store[id].maxViews = 2
        /\ store[id].viewsUsed = 2
        /\ \E r1, r2 \in ServedOf(id) :
               /\ r1 # r2
               /\ RemainingViewsOf(r1) = 0
               /\ RemainingViewsOf(r2) = 0

\* The 200 responses for a paste that reached a client.
DeliveredOf(id) == {r \in Readers : reqs[r].id = id /\ Served(r) /\ ~reqs[r].aborted}

\* The requests whose increment the database applied to a paste.
IncrementedBy(id) == {r \in Readers : reqs[r].id = id /\ reqs[r].incs = 1}

\* C19: viewsUsed counts every increment the database applied, those of
\* requests that then failed (500) or were abandoned by their client
\* included: none is taken back.  So the 200 responses delivered for a paste
\* are at most its viewsUsed.
C19_IncrementNeverRolledBack ==
    \A id \in Stored :
        /\ store[id].viewsUsed = Cardinality(IncrementedBy(id))
        /\ Cardinality(DeliveredOf(id)) <= store[id].viewsUsed

\* C19 witness: one request failed at its re-read and one was abandoned after
\* its increment; both increments are counted and no response was delivered.
C19_Witness ==
    \E id \in Stored : \E r1, r2 \in IncrementedBy(id) :
        /\ Done(r1) /\ reqs[r1].cause = "error" /\ reqs[r1].res.status = 500
        /\ Done(r2) /\ reqs[r2].aborted
        /\ store[id].viewsUsed = 2
        /\ DeliveredOf(id) = {}

\* C20: the two routes apply one liveness rule to one budget: at every
\* instant a stored paste is live for GET /api/pastes/:id exactly when it is
\* live for GET /p/:id, and with one request at a time the served requests of
\* both routes together are as many as viewsUsed, at most max_views, and a
\* request of either route is refused as exhausted only after max_views
\* earlier requests, of whichever route, were served.
C20_RoutesShareBudget ==
    \A id \in Stored :
        /\ \A t \in Instants \cup {reqs[r].currentTime : r \in Readers} :
               ApiLiveness(store[id], t) = ViewLiveness(store[id], t)
        /\ (store[id].maxViews # Null /\ InFlight = {}) =>
               /\ Cardinality({r \in ServedOf(id) : reqs[r].route = "api"})
                    + Cardinality({r \in ServedOf(id) : reqs[r].route = "view"})
                      = store[id].viewsUsed
               /\ store[id].viewsUsed <= store[id].maxViews
               /\ \A r \in ReadsOf(id) :
                      (Unavailable(r) /\ reqs[r].cause = "exhausted") =>
                          Cardinality({q \in ServedOf(id) : q < r}) = store[id].maxViews

\* C20 witness: a paste with max_views = 1 served on the JSON route and then
\* refused as exhausted on the HTML route.
C20_Witness ==
    \E id \in Stored :
        /\ store[id].maxViews = 1
        /\ \E r1, r2 \in ReadsOf(id) :
               /\ r1 < r2
               /\ reqs[r1].route = "api" /\ Served(r1)
               /\ reqs[r2].route = "view" /\ Unavailable(r2)
               /\ reqs[r2].cause = "exhausted"

\* C21: when every database call eventually resolves or rejects, every read
\* request that has arrived is eventually answered and every create whose
\* save is pending is eventually answered; the answer is one of 200, 404, 500
\* (201 or 500 for a create) and is never replaced once given; and the step
\* that resumes a request after its database call is enabled whatever the
\* other requests are doing.
C21_EveryRequestCompletes ==
    /\ \A r \in Readers : (reqs[r].pc \notin {"idle", "done"}) ~> Done(r)
    /\ PostPending ~> (call.kind = "post" /\ call.res.status \in {201, 500})
    /\ [][\A r \in Readers :
              Done(r) => (Done(r)' /\ reqs'[r].res = reqs[r].res)]_vars
    /\ [](\A r \in Readers :
              /\ Done(r) => reqs[r].res.status \in {200, 404, 500}
              /\ reqs[r].pc \notin {"idle", "done"} => ENABLED ReturnsTo(r))

\* C21 witness: two requests on one stored paste were in flight together, past
\* their lookups, and both have been answered, after the create was answered.
C21_Witness ==
    /\ call.kind = "post" /\ call.res.status = 201
    /\ \E id \in Stored : \E r1, r2 \in Readers :
           /\ r1 # r2
           /\ reqs[r1].id = id /\ reqs[r2].id = id
           /\ Done(r1) /\ Done(r2)
           /\ reqs[r1].paste # NoPaste /\ reqs[r2].paste # NoPaste
           /\ reqs[r1].paste.viewsUsed = reqs[r2].paste.viewsUsed

====
